---------------------------- MODULE Spec2Model ----------------------------
(***************************************************************************)
(* A model of the level simulation core of Planetes (src/src/level.py,     *)
(* character.py, bullets.py, tiles.py, game.py).                           *)
(*                                                                         *)
(* Numbers.  pygame.Rect holds integers; a float assigned to a Rect        *)
(* coordinate is truncated toward zero.  Velocities (pygame Vector2,       *)
(* doubles) are multiples of 0.1 in the program and are held here in       *)
(* tenths: GRAVITY 0.8 is 8, PLAYER_JUMP -16 is -160, ENEMY_MOVEMENT 3.5   *)
(* is 35.  Wall-clock time is held in milliseconds.                        *)
(*                                                                         *)
(* Images.  The sizes of the sprites come from image files that are not    *)
(* part of the sources; the model fixes one size per sprite kind (see the  *)
(* definitions PlayerW .. SheetTile) and takes every animation frame of a  *)
(* sprite to have that size.                                               *)
(***************************************************************************)
EXTENDS Integers, Sequences, FiniteSets, TLC

VARIABLES
    pc,          \* position of game.py: "build" | "built" (SpecBuild),
                 \* "running" | "gameover" | "crashed" (Spec, SpecPersist),
                 \* "shooting" (SpecShoot), "camera" | "panned" (SpecCamera),
                 \* "save" | "json" | "loaded" (SpecSave),
                 \* "anchor" | "anchored" (SpecAnchor),
                 \* "horizontal" | "vertical" | "resolved" (SpecResolve),
                 \* "particle" (SpecParticle), "animating" (SpecAnimate)
    tiles,       \* Level.tiles: the live tiles, in group (insertion) order
    player,      \* Level.player.sprite
    enemies,     \* Level.enemies
    world_shift, \* Level.world_shift
    current_x,   \* Level.current_x
    obs,         \* what the last Level.run observed on its way (history)
    coins0,      \* number of collectable tiles the level was built with
    layout,      \* the layout handed to Level(...)            (SpecBuild)
    built,       \* outcome of Level.__init__ / spawn_sprites  (SpecBuild)
    now,         \* time(), in ms                              (SpecShoot)
    shooter,     \* the Shooter part of the player             (SpecShoot)
    db,          \* settings.db: the key/value store, key |-> value
    dust,        \* Level.dust_sprite: the particle of the group, if any
    anim         \* Player.animations (lengths), frame_index and image lookups

vars == <<pc, tiles, player, enemies, world_shift, current_x, obs, coins0,
          layout, built, now, shooter, db, dust, anim>>

levelVars == <<pc, tiles, player, enemies, world_shift, current_x, obs, coins0>>
buildVars == <<layout, built>>
shootVars == <<now, shooter>>

(***************************************************************************)
(* Arithmetic                                                              *)
(***************************************************************************)
Abs(n) == IF n < 0 THEN -n ELSE n

\* int(a / b) for b > 0: C truncation toward zero, as pygame converts a
\* float to a Rect coordinate.
TruncDiv(a, b) == IF a >= 0 THEN a \div b ELSE -((-a) \div b)

(***************************************************************************)
(* Program constants                                                       *)
(***************************************************************************)
tile_size == 64
screen_width == 1200
PLAYER_MOVEMENT == 8
PLAYER_JUMP == -160
GRAVITY == 8
ENEMY_MOVEMENT == 35
BULLET_SPEED == 7
SHOOT_DELAY == 180
BULLET_RANGE == 550

\* Pixel size of one cell of the map tile sheet (an asset): Square(...).scaled(4, 4)
\* of it is the 64-pixel wall, .scaled(2, 2) the 32-pixel coin.
SheetTile == 16
\* Side of the invisible Surface((64, 64)) used for death boxes and enemy floors.
BlankSide == 64
\* Size of the player's and the enemy's images (assets).
PlayerW == 48
PlayerH == 56
EnemyW == 64
EnemyH == 64

(***************************************************************************)
(* Rectangles (pygame.Rect)                                                *)
(***************************************************************************)
Left(r) == r.x
Right(r) == r.x + r.w
Top(r) == r.y
Bottom(r) == r.y + r.h
CenterX(r) == r.x + (r.w \div 2)

\* pygame.Rect.colliderect: the interiors overlap; touching edges do not.
colliderect(a, b) ==
    /\ Left(a) < Right(b) /\ Right(a) > Left(b)
    /\ Top(a) < Bottom(b) /\ Bottom(a) > Top(b)

(***************************************************************************)
(* Tiles (tiles.Square) and Level.spawn_sprites                            *)
(***************************************************************************)
CellTypes == {" ", "X", "P", "E", "C", "D"}

\* Square(surface, collides, collectable, kills).scaled(k, k).with_rect(x, y)
Square(x, y, side, collides, collectable, kills) ==
    [x |-> x, y |-> y, w |-> side, h |-> side,
     collides |-> collides, collectable |-> collectable, kills |-> kills]

\* Character.__init__ + Player.__init__
NewPlayer(x, y) ==
    [x |-> x, y |-> y, w |-> PlayerW, h |-> PlayerH,
     dx |-> 0, dy |-> 0, lift |-> FALSE, speed |-> PLAYER_MOVEMENT * 10,
     orientation |-> "RIGHT", collisions |-> {}, status |-> "IDLE",
     score |-> 0]

\* Character.__init__ + Enemy.__init__
NewEnemy(x, y) ==
    [x |-> x, y |-> y, w |-> EnemyW, h |-> EnemyH,
     dx |-> 0, speed |-> ENEMY_MOVEMENT, orientation |-> "RIGHT",
     collisions |-> {}]

NoPlayer == [none |-> TRUE]

\* SpawnCell keeping the first player cell instead of the last.
SpawnCell_first_player(acc, cell, row_index, col_index) ==
    LET x == (col_index - 1) * tile_size
        y == (row_index - 1) * tile_size
    IN  IF acc.raised THEN acc
        ELSE IF cell \notin {" ", "X", "P", "E", "C", "D"} THEN [acc EXCEPT !.raised = TRUE]
        ELSE IF cell = "X" THEN
            [acc EXCEPT !.tiles = Append(@, Square(x, y, 4 * SheetTile, TRUE, FALSE, FALSE))]
        ELSE IF cell = "P" THEN
            IF acc.player = NoPlayer THEN [acc EXCEPT !.player = NewPlayer(x, y)] ELSE acc
        ELSE IF cell = "C" THEN
            [acc EXCEPT !.tiles = Append(@, Square(x + 16, y + 16, 2 * SheetTile, FALSE, TRUE, FALSE))]
        ELSE IF cell = "D" THEN
            [acc EXCEPT !.tiles = Append(@, Square(x, y, 4 * BlankSide, TRUE, FALSE, TRUE))]
        ELSE IF cell = "E" THEN
            [acc EXCEPT !.enemies = Append(@, NewEnemy(x, y - 64)),
                        !.tiles = Append(@, Square(x, y, 4 * BlankSide, TRUE, FALSE, FALSE))]
        ELSE acc

\* The body of the double loop of spawn_sprites for one cell; acc holds the
\* locals tiles, player_sprite, self.enemies and whether CellType(cell) raised.
SpawnCell(acc, cell, row_index, col_index) ==
    LET x == (col_index - 1) * tile_size
        y == (row_index - 1) * tile_size
    IN  IF acc.raised THEN acc
        ELSE IF cell \notin CellTypes THEN [acc EXCEPT !.raised = TRUE]
        ELSE IF cell = "X" THEN
            [acc EXCEPT !.tiles = Append(@, Square(x, y, 4 * SheetTile, TRUE, FALSE, FALSE))]
        ELSE IF cell = "P" THEN
            [acc EXCEPT !.player = NewPlayer(x, y)]
        ELSE IF cell = "C" THEN
            [acc EXCEPT !.tiles = Append(@, Square(x + 16, y + 16, 2 * SheetTile, FALSE, TRUE, FALSE))]
        ELSE IF cell = "D" THEN
            [acc EXCEPT !.tiles = Append(@, Square(x, y, 4 * BlankSide, TRUE, FALSE, TRUE))]
        ELSE IF cell = "E" THEN
            [acc EXCEPT !.enemies = Append(@, NewEnemy(x, y - 64)),
                        !.tiles = Append(@, Square(x, y, 4 * BlankSide, TRUE, FALSE, FALSE))]
        ELSE acc

\* The loops below hand each iteration's result to the next as a value
\* (a \in {...}), so that it is computed once.
RECURSIVE SpawnRow(_, _, _, _)
SpawnRow(acc, row, row_index, col_index) ==
    IF col_index > Len(row) THEN acc
    ELSE CHOOSE r \in {SpawnRow(a, row, row_index, col_index + 1) :
                       a \in {SpawnCell(acc, row[col_index], row_index, col_index)}} : TRUE

RECURSIVE SpawnRows(_, _, _)
SpawnRows(acc, lay, row_index) ==
    IF row_index > Len(lay) THEN acc
    ELSE CHOOSE r \in {SpawnRows(a, lay, row_index + 1) :
                       a \in {SpawnRow(acc, lay[row_index], row_index, 1)}} : TRUE

\* spawn_sprites without its final `if not player_sprite: raise`.
spawn_sprites_unchecked(lay) ==
    LET acc == SpawnRows([tiles |-> <<>>, player |-> NoPlayer, enemies |-> <<>>,
                          raised |-> FALSE], lay, 1)
    IN  IF acc.raised
        THEN [ok |-> FALSE, error |-> "ValueError"]
        ELSE [ok |-> TRUE, tiles |-> acc.tiles, player |-> acc.player,
              enemies |-> acc.enemies]

\* Level.spawn_sprites (with the part of Level.__init__ that calls it):
\* ok = FALSE stands for the ValueError leaving the constructor.
spawn_sprites(lay) ==
    LET acc == SpawnRows([tiles |-> <<>>, player |-> NoPlayer, enemies |-> <<>>,
                          raised |-> FALSE], lay, 1)
    IN  IF acc.raised \/ acc.player = NoPlayer
        THEN [ok |-> FALSE, error |-> "ValueError"]
        ELSE [ok |-> TRUE, tiles |-> acc.tiles, player |-> acc.player,
              enemies |-> acc.enemies]


(***************************************************************************)
(* Player (character.py)                                                   *)
(***************************************************************************)
\* direction.y compared with 0.  direction.y is a double: set to -16 by jump()
\* and then raised by 0.8 per frame it is 5.1e-15, not 0, after the twentieth
\* addition.  lift records that direction.y was last assigned by jump(), so
\* that a zero of the tenths then stands for that positive residue; a zero
\* assigned by a collision is an exact 0.0.
DyPositive(c) == c.dy > 0 \/ (c.dy = 0 /\ c.lift)
DyNegative(c) == c.dy < 0

\* Player.jump
jump(p) == [p EXCEPT !.dy = PLAYER_JUMP, !.lift = TRUE]

\* Player.orientation (setter): the rect is rebuilt at its own topleft with the
\* size of the current image.
SetOrientation(p, value) ==
    [p EXCEPT !.orientation = value, !.w = PlayerW, !.h = PlayerH]

\* handle_key_presses jumping on K_UP alone, without the BOTTOM test.
handle_key_presses_airborne(p, keys) ==
    LET p1 == IF keys.right THEN SetOrientation([p EXCEPT !.dx = 1], "RIGHT")
              ELSE IF keys.left THEN SetOrientation([p EXCEPT !.dx = -1], "LEFT")
              ELSE [p EXCEPT !.dx = 0]
        jumping == keys.up
    IN  [p |-> IF jumping THEN jump(p1) ELSE p1,
         jumps |-> IF jumping THEN 1 ELSE 0]

\* Player.handle_key_presses without its K_SPACE branch (see ShootRequest).
\* Returns the player and the number of create_jump_particles calls.
handle_key_presses(p, keys) ==
    LET p1 == IF keys.right THEN SetOrientation([p EXCEPT !.dx = 1], "RIGHT")
              ELSE IF keys.left THEN SetOrientation([p EXCEPT !.dx = -1], "LEFT")
              ELSE [p EXCEPT !.dx = 0]
        jumping == keys.up /\ "BOTTOM" \in p1.collisions
    IN  [p |-> IF jumping THEN jump(p1) ELSE p1,
         jumps |-> IF jumping THEN 1 ELSE 0]

\* update_status with FALL taken at direction.y > 0 instead of > 1.
update_status_fall_at_zero(p) ==
    [p EXCEPT !.status =
        IF DyNegative(p) THEN "JUMP"
        ELSE IF DyPositive(p) THEN "FALL"
        ELSE IF p.dx # 0 THEN "RUN"
        ELSE "IDLE"]

\* Player.update_status
update_status(p) ==
    [p EXCEPT !.status =
        IF DyNegative(p) THEN "JUMP"
        ELSE IF p.dy > 10 THEN "FALL"
        ELSE IF p.dx # 0 THEN "RUN"
        ELSE "IDLE"]

\* handle_collisions testing the single BOTTOM edge before the corners.
handle_collisions_bottom_first(c, iw, ih) ==
    LET has(S) == S \subseteq c.collisions
    IN  IF has({"BOTTOM"}) THEN
            [c EXCEPT !.x = CenterX(c) - (iw \div 2), !.y = Bottom(c) - ih, !.w = iw, !.h = ih]
        ELSE IF has({"TOP", "RIGHT"}) THEN
            [c EXCEPT !.x = Right(c) - iw, !.y = Top(c), !.w = iw, !.h = ih]
        ELSE IF has({"TOP", "LEFT"}) THEN
            [c EXCEPT !.x = Left(c), !.y = Top(c), !.w = iw, !.h = ih]
        ELSE IF has({"TOP"}) THEN
            [c EXCEPT !.x = CenterX(c) - (iw \div 2), !.y = Top(c), !.w = iw, !.h = ih]
        ELSE c

\* Character.handle_collisions: image.get_rect(<anchor> = self.rect.<anchor>)
handle_collisions(c, iw, ih) ==
    LET has(S) == S \subseteq c.collisions
    IN  IF has({"BOTTOM", "RIGHT"}) THEN
            [c EXCEPT !.x = Right(c) - iw, !.y = Bottom(c) - ih, !.w = iw, !.h = ih]
        ELSE IF has({"BOTTOM", "LEFT"}) THEN
            [c EXCEPT !.x = Left(c), !.y = Bottom(c) - ih, !.w = iw, !.h = ih]
        ELSE IF has({"BOTTOM"}) THEN
            [c EXCEPT !.x = CenterX(c) - (iw \div 2), !.y = Bottom(c) - ih, !.w = iw, !.h = ih]
        ELSE IF has({"TOP", "RIGHT"}) THEN
            [c EXCEPT !.x = Right(c) - iw, !.y = Top(c), !.w = iw, !.h = ih]
        ELSE IF has({"TOP", "LEFT"}) THEN
            [c EXCEPT !.x = Left(c), !.y = Top(c), !.w = iw, !.h = ih]
        ELSE IF has({"TOP"}) THEN
            [c EXCEPT !.x = CenterX(c) - (iw \div 2), !.y = Top(c), !.w = iw, !.h = ih]
        ELSE c

\* Player.animate: the image choice is the renderer's; the rect is re-anchored.
animate(p) == handle_collisions(p, PlayerW, PlayerH)

\* Player.apply_gravity: direction.y += 0.8; rect.y += direction.y
apply_gravity(p) ==
    LET dy == p.dy + GRAVITY
    IN  [p EXCEPT !.dy = dy, !.y = TruncDiv(10 * p.y + dy, 10)]

\* Player.update without display_bullets (see DisplayBullets); the running
\* dust it blits is the renderer's.
PlayerUpdate(p, keys) ==
    LET k == handle_key_presses(p, keys)
    IN  [p |-> animate(update_status(k.p)), jumps |-> k.jumps, afterKeys |-> k.p]

(***************************************************************************)
(* Level: camera and collision resolution (level.py)                       *)
(***************************************************************************)
\* Square.update(x_shift) over the group
TilesUpdate(ts, shift) == [i \in 1..Len(ts) |-> [ts[i] EXCEPT !.x = @ + shift]]

\* handle_horizontal_movement whose right-quarter branch forgets player.speed = 0.
handle_horizontal_movement_keeps_speed(p) ==
    IF 4 * CenterX(p) < screen_width /\ p.dx < 0
    THEN [shift |-> PLAYER_MOVEMENT * 2, speed |-> 0]
    ELSE IF 4 * CenterX(p) > 4 * screen_width - screen_width /\ p.dx > 0
    THEN [shift |-> -(PLAYER_MOVEMENT * 2), speed |-> 80]
    ELSE [shift |-> 0, speed |-> 80]

\* Level.handle_horizontal_movement: the new world_shift and player.speed
\* (speed in tenths of a pixel per frame).
handle_horizontal_movement(p) ==
    IF 4 * CenterX(p) < screen_width /\ p.dx < 0
    THEN [shift |-> PLAYER_MOVEMENT * 2, speed |-> 0]
    ELSE IF 4 * CenterX(p) > 4 * screen_width - screen_width /\ p.dx > 0
    THEN [shift |-> -(PLAYER_MOVEMENT * 2), speed |-> 0]
    ELSE [shift |-> 0, speed |-> 80]

\* `character is self.player`: the sprite compared with the group that holds it.
IsPlayerGroup(isEnemy) == FALSE

\* HTile that does not snap a character again once it carries the flag of its
\* direction.
HTile_snaps_once(a, sprite, isEnemy) ==
    LET c == a.c
    IN  IF ~(sprite.collides /\ colliderect(sprite, c)) \/ sprite.kills THEN a
        ELSE IF c.dx < 0 /\ "LEFT" \notin c.collisions THEN
            [a EXCEPT !.c = [c EXCEPT !.x = Right(sprite),
                                      !.collisions = @ \cup {"LEFT"}],
                      !.cx = Left(sprite)]
        ELSE IF c.dx > 0 /\ "RIGHT" \notin c.collisions THEN
            [a EXCEPT !.c = [c EXCEPT !.x = Left(sprite) - c.w,
                                      !.collisions = @ \cup {"RIGHT"}],
                      !.cx = Right(sprite)]
        ELSE a

\* One iteration of the tile loop of horizontal_movement_collision.
\* a = [c: the character, cx: self.current_x, killed: character.kill() ran]
HTile(a, sprite, isEnemy) ==
    LET c == a.c
        c1 == IF isEnemy /\ c.dx > 0 /\ Left(sprite) < Right(c) /\ Right(c) < Right(sprite)
              THEN [c EXCEPT !.dx = -c.dx, !.speed = ENEMY_MOVEMENT]
              ELSE c
    IN  IF ~(sprite.collides /\ colliderect(sprite, c1)) THEN [a EXCEPT !.c = c1]
        ELSE IF sprite.kills THEN
            [a EXCEPT !.c = c1, !.killed = a.killed \/ IsPlayerGroup(isEnemy)]
        ELSE IF c1.dx < 0 THEN
            [a EXCEPT !.c = [c1 EXCEPT !.x = Right(sprite),
                                       !.collisions = @ \cup {"LEFT"}],
                      !.cx = Left(sprite)]
        ELSE IF c1.dx > 0 THEN
            [a EXCEPT !.c = [c1 EXCEPT !.x = Left(sprite) - c1.w,
                                       !.collisions = @ \cup {"RIGHT"}],
                      !.cx = Right(sprite)]
        ELSE [a EXCEPT !.c = c1]

RECURSIVE HSweep(_, _, _, _)
HSweep(a, ts, i, isEnemy) ==
    IF i > Len(ts) THEN a
    ELSE CHOOSE r \in {HSweep(b, ts, i + 1, isEnemy) : b \in {HTile(a, ts[i], isEnemy)}} : TRUE

\* HClear that drops LEFT but never RIGHT.
HClear_keeps_right(c, cx) ==
    IF "LEFT" \in c.collisions /\ (Left(c) < cx \/ c.dx >= 0)
    THEN [c EXCEPT !.collisions = @ \ {"LEFT"}] ELSE c

\* The flag clearing that ends horizontal_movement_collision.
HClear(c, cx) ==
    LET c1 == IF "LEFT" \in c.collisions /\ (Left(c) < cx \/ c.dx >= 0)
              THEN [c EXCEPT !.collisions = @ \ {"LEFT"}] ELSE c
    IN  IF "RIGHT" \in c1.collisions /\ (Right(c1) > cx \/ c1.dx <= 0)
        THEN [c1 EXCEPT !.collisions = @ \ {"RIGHT"}] ELSE c1

\* Level.horizontal_movement_collision(character)
horizontal_movement_collision(c, ts, cx, isEnemy) ==
    LET moved == [c EXCEPT !.x = TruncDiv(10 * c.x + c.dx * c.speed, 10)]
        a == HSweep([c |-> moved, cx |-> cx, killed |-> FALSE], ts, 1, isEnemy)
    IN  [a EXCEPT !.c = HClear(a.c, a.cx)]

\* for enemy in self.enemies: self.horizontal_movement_collision(enemy.sprite)
RECURSIVE EnemiesSweep(_, _, _, _)
EnemiesSweep(es, ts, cx, i) ==
    IF i > Len(es) THEN [enemies |-> es, cx |-> cx]
    ELSE CHOOSE r \in {EnemiesSweep([es EXCEPT ![i] = h.c], ts, h.cx, i + 1) :
                       h \in {horizontal_movement_collision(es[i], ts, cx, TRUE)}} : TRUE

\* VTile without `sprite.kill()`: the collectable tile stays in the group.
VTile_no_kill(a, ts, i) ==
    LET sprite == ts[i]
        p == a.p
        hit == colliderect(sprite, p)
    IN  IF a.over THEN a
        ELSE IF sprite.collides /\ hit /\ sprite.kills THEN [a EXCEPT !.over = TRUE]
        ELSE LET p1 == IF sprite.collides /\ hit
                       THEN IF DyPositive(p)
                            THEN [p EXCEPT !.y = Top(sprite) - p.h, !.dy = 0, !.lift = FALSE,
                                           !.collisions = @ \cup {"BOTTOM"}]
                            ELSE IF DyNegative(p)
                            THEN [p EXCEPT !.y = Bottom(sprite), !.dy = 0, !.lift = FALSE,
                                           !.collisions = @ \cup {"TOP"}]
                            ELSE p
                       ELSE p
             IN  IF sprite.collectable /\ colliderect(sprite, p1)
                 THEN [a EXCEPT !.p = [p1 EXCEPT !.score = @ + 1]]
                 ELSE [a EXCEPT !.p = p1]

\* One iteration of the tile loop of vertical_movement_collision.
\* a = [p: the player, gone: indices of the tiles killed, over: GameOver raised]
VTile(a, ts, i) ==
    LET sprite == ts[i]
        p == a.p
        hit == colliderect(sprite, p)
    IN  IF a.over THEN a
        ELSE IF sprite.collides /\ hit /\ sprite.kills THEN [a EXCEPT !.over = TRUE]
        ELSE LET p1 == IF sprite.collides /\ hit
                       THEN IF DyPositive(p)
                            THEN [p EXCEPT !.y = Top(sprite) - p.h, !.dy = 0, !.lift = FALSE,
                                           !.collisions = @ \cup {"BOTTOM"}]
                            ELSE IF DyNegative(p)
                            THEN [p EXCEPT !.y = Bottom(sprite), !.dy = 0, !.lift = FALSE,
                                           !.collisions = @ \cup {"TOP"}]
                            ELSE p
                       ELSE p
             IN  IF sprite.collectable /\ colliderect(sprite, p1)
                 THEN [a EXCEPT !.p = [p1 EXCEPT !.score = @ + 1], !.gone = @ \cup {i}]
                 ELSE [a EXCEPT !.p = p1]

RECURSIVE VSweep(_, _, _)
VSweep(a, ts, i) ==
    IF i > Len(ts) THEN a
    ELSE CHOOSE r \in {VSweep(b, ts, i + 1) : b \in {VTile(a, ts, i)}} : TRUE

\* The flag clean-up that drops BOTTOM as soon as direction.y is positive.
VClear_drops_on_fall(p) ==
    LET p1 == IF "BOTTOM" \in p.collisions /\ (DyNegative(p) \/ p.dy > 0)
              THEN [p EXCEPT !.collisions = @ \ {"BOTTOM"}] ELSE p
    IN  IF "TOP" \in p1.collisions /\ p1.dy > 1
        THEN [p1 EXCEPT !.collisions = @ \ {"TOP"}] ELSE p1

\* VClear that clears BOTTOM on a rising player only, not on a falling one.
VClear_rising_only(p) ==
    LET p1 == IF "BOTTOM" \in p.collisions /\ DyNegative(p)
              THEN [p EXCEPT !.collisions = @ \ {"BOTTOM"}] ELSE p
    IN  IF "TOP" \in p1.collisions /\ p1.dy > 1
        THEN [p1 EXCEPT !.collisions = @ \ {"TOP"}] ELSE p1

\* The flag clearing that ends vertical_movement_collision.
VClear(p) ==
    LET p1 == IF "BOTTOM" \in p.collisions /\ (DyNegative(p) \/ p.dy > 10)
              THEN [p EXCEPT !.collisions = @ \ {"BOTTOM"}] ELSE p
    IN  IF "TOP" \in p1.collisions /\ p1.dy > 1
        THEN [p1 EXCEPT !.collisions = @ \ {"TOP"}] ELSE p1

\* The sequence s without the elements whose index is in gone.
RECURSIVE Without(_, _, _)
Without(s, gone, i) ==
    IF i > Len(s) THEN <<>>
    ELSE (IF i \in gone THEN <<>> ELSE <<s[i]>>) \o Without(s, gone, i + 1)

\* Level.vertical_movement_collision
vertical_movement_collision(p, ts) ==
    LET a == VSweep([p |-> apply_gravity(p), gone |-> {}, over |-> FALSE], ts, 1)
    IN  [p |-> IF a.over THEN a.p ELSE VClear(a.p),
         tiles |-> Without(ts, a.gone, 1),
         over |-> a.over]

(***************************************************************************)
(* Level.run, driven by game.main                                          *)
(***************************************************************************)
\* The keys pygame.key.get_pressed() reports in a frame.
\* Escape ends the loop whatever else is held, so it is drawn alone.  The
\* frames of Spec are drawn with K_s released; SpecPersist draws the frames
\* that press it.
KeyStates ==
    {k \in [right : BOOLEAN, left : BOOLEAN, up : BOOLEAN, escape : BOOLEAN,
            save : {FALSE}] :
        k.escape => ~(k.right \/ k.left \/ k.up)}
NoKeys == [right |-> FALSE, left |-> FALSE, up |-> FALSE, escape |-> FALSE,
          save |-> FALSE]

\* The frames are explored while the player is inside this box around the level.
MinX == 192
MaxX == 600
MaxRise == 8
MaxY == 400
InWorld ==
    /\ MinX <= player.x /\ player.x <= MaxX
    /\ -MaxRise <= player.y /\ player.y <= MaxY

\* display_enemies: enemy.update() is animate(), which re-anchors the rect.
DisplayEnemies(es) == [i \in 1..Len(es) |-> handle_collisions(es[i], EnemyW, EnemyH)]

TouchesHazard(c, ts) == \E i \in 1..Len(ts) : ts[i].kills /\ colliderect(ts[i], c)

\* The vertical sweep that took player c to player p put it on top of a tile:
\* the only assignment that turns a positive direction.y into an exact 0.
SnappedDown(c, p) == DyPositive(apply_gravity(c)) /\ p.dy = 0 /\ ~p.lift

(***************************************************************************)
(* particles.ParticleEffect and the particle group of the level            *)
(***************************************************************************)
\* Number of images in the folders dust_particles/jump and dust_particles/land
\* (assets).
JumpFrames == 3
LandFrames == 2

\* The empty group.
NoDust == [alive |-> FALSE]

\* The animation index is not followed.
NoAnim == [none |-> TRUE]

\* ParticleEffect.__init__: frame_index 0.0 is kept in halves (idx2), the
\* image shown is frames[int(frame_index)], the rect is centred on pos.
ParticleEffect(x, y, kind, n) ==
    [alive |-> TRUE, kind |-> kind, n |-> n, idx2 |-> 0, image |-> 0,
     x |-> x, y |-> y]

\* ParticleEffect.animate that never calls kill().
animate_particle_no_kill(d) ==
    [d EXCEPT !.idx2 = @ + 1, !.image = (d.idx2 + 1) \div 2]

\* ParticleEffect.animate: frame_index += 0.5; kill() leaves the group empty.
animate_particle(d) ==
    IF d.idx2 + 1 >= 2 * d.n THEN NoDust
    ELSE [d EXCEPT !.idx2 = @ + 1, !.image = (d.idx2 + 1) \div 2]

\* dust_sprite.update(x_shift): ParticleEffect.update of the sprite in the
\* group; a killed sprite has left the group before `rect.x += x_shift`
\* could matter.
DustUpdate(d, x_shift) ==
    IF ~d.alive THEN d
    ELSE LET a == animate_particle(d)
         IN  IF a.alive THEN [a EXCEPT !.x = @ + x_shift] ELSE a

\* class Save(BaseModel): the constructor with its five fields.
Save(name, score, level, map, created_at) ==
    [name |-> name, score |-> score, level |-> level, map |-> map,
     created_at |-> created_at]

\* Save.to_json with the keys "score" and "level" exchanged.
to_json_swapped(self) ==
    ("name" :> self.name) @@ ("score" :> self.level) @@ ("level" :> self.score)
        @@ ("map" :> self.map) @@ ("created_at" :> self.created_at)

\* Save.to_json: the dict literal, key by key.
to_json(self) ==
    ("name" :> self.name) @@ ("score" :> self.score) @@ ("level" :> self.level)
        @@ ("map" :> self.map) @@ ("created_at" :> self.created_at)

\* Save.from_json: cls(name=json_data["name"], ...).
from_json(json_data) ==
    Save(json_data["name"], json_data["score"], json_data["level"],
         json_data["map"], json_data["created_at"])

\* Level.get_save with the score of a freshly built player.
get_save_zero_score(p, level_data) == Save("Player 1", 0, 0, level_data, "today")

\* Level.get_save: the save of the player as it is now.
get_save(p, level_data) == Save("Player 1", p.score, 0, level_data, "today")

\* Level.update_db: db.set(self.get_save.name, self.get_save.to_json()).
update_db(store, p, level_data) ==
    (get_save(p, level_data).name :> to_json(get_save(p, level_data))) @@ store

\* start.setup: the store as settings.py leaves it before the level is built.
setup(level_data) ==
    "current" :> to_json(Save("first", 0, 1, level_data, "date.today()"))

\* What the collaborators answer to Level.save: db.set returns or raises;
\* requests.post answers 200, answers another status, or raises.  Nothing is
\* asked when the frame does not reach `await self.save()`.
SaveOutcomes(saving) ==
    IF saving
    THEN {[set |-> "raises", post |-> "none"]}
         \cup {[set |-> "ok", post |-> r] : r \in {"200", "500", "raises"}}
    ELSE {[set |-> "none", post |-> "none"]}

\* Where game.main is after the tail of Level.run: GameOver is caught, any
\* other exception leaves main.
AfterKeys(over, keys, out) ==
    IF over \/ keys.escape THEN "gameover"
    ELSE IF out.set = "raises" \/ out.post = "raises" THEN "crashed"
    ELSE "running"

\* Level.run with handle_horizontal_movement called after the collision
\* resolution instead of before player.update.
Run_camera_last(keys) ==
    /\ pc = "running"
    /\ InWorld
    /\ \E ts \in {TilesUpdate(tiles, world_shift)} :
       \E u \in {PlayerUpdate(player, keys)} :
       \E h \in {horizontal_movement_collision(u.p, ts, current_x, FALSE)} :
       \E e \in {EnemiesSweep(enemies, ts, h.cx, 1)} :
       \E v \in {vertical_movement_collision(h.c, ts)} :
       \E hm \in {handle_horizontal_movement(v.p)} :
           /\ tiles' = v.tiles
           /\ player' = [v.p EXCEPT !.speed = hm.speed]
           /\ enemies' = IF v.over THEN e.enemies ELSE DisplayEnemies(e.enemies)
           /\ world_shift' = hm.shift
           /\ current_x' = e.cx
           /\ \E out \in SaveOutcomes(~v.over /\ ~keys.escape /\ keys.save) :
                /\ pc' = AfterKeys(v.over, keys, out)
                /\ db' = IF out.set = "ok" THEN update_db(db, [v.p EXCEPT !.speed = hm.speed], layout) ELSE db
                /\ obs' = [hazard  |-> TouchesHazard(h.c, ts),
                           lastdir |-> IF u.p.dx # 0 THEN u.p.dx ELSE obs.lastdir,
                           up      |-> keys.up,
                           jumps   |-> u.jumps,
                           dy1     |-> u.afterKeys.dy,
                           killed  |-> h.killed,
                           landed  |-> IF SnappedDown(h.c, v.p) THEN TRUE
                                       ELSE IF u.jumps > 0 THEN FALSE
                                       ELSE obs.landed,
                           save    |-> keys.save,
                           io      |-> out,
                           over    |-> v.over]
    /\ UNCHANGED <<coins0, layout, built, now, shooter>>

\* One pass of game.main's loop: `await level.run()` and the GameOver handler.
Run(keys) ==
    /\ pc = "running"
    /\ InWorld
    /\ \E ts \in {TilesUpdate(tiles, world_shift)} :
       \E hm \in {handle_horizontal_movement(player)} :
       \E u \in {PlayerUpdate([player EXCEPT !.speed = hm.speed], keys)} :
       \E h \in {horizontal_movement_collision(u.p, ts, current_x, FALSE)} :
       \E e \in {EnemiesSweep(enemies, ts, h.cx, 1)} :
       \E v \in {vertical_movement_collision(h.c, ts)} :
           /\ tiles' = v.tiles
           /\ player' = v.p
           /\ enemies' = IF v.over THEN e.enemies ELSE DisplayEnemies(e.enemies)
           /\ world_shift' = hm.shift
           /\ current_x' = e.cx
           /\ \E out \in SaveOutcomes(~v.over /\ ~keys.escape /\ keys.save) :
                /\ pc' = AfterKeys(v.over, keys, out)
                /\ db' = IF out.set = "ok" THEN update_db(db, v.p, layout) ELSE db
                /\ obs' = [hazard  |-> TouchesHazard(h.c, ts),
                           lastdir |-> IF u.p.dx # 0 THEN u.p.dx ELSE obs.lastdir,
                           up      |-> keys.up,
                           jumps   |-> u.jumps,
                           dy1     |-> u.afterKeys.dy,
                           killed  |-> h.killed,
                           landed  |-> IF SnappedDown(h.c, v.p) THEN TRUE
                                       ELSE IF u.jumps > 0 THEN FALSE
                                       ELSE obs.landed,
                           save    |-> keys.save,
                           io      |-> out,
                           over    |-> v.over]
    /\ UNCHANGED <<coins0, layout, built, now, shooter>>

\* What a frame leaves for inspection: whether the player touched a hazard
\* after the horizontal step, its last nonzero direction.x, the K_UP state,
\* the number of create_jump_particles calls, direction.y as
\* handle_key_presses left it, whether horizontal_movement_collision called
\* kill() on the player, whether the player has been set on top of a tile
\* since its last jump, the K_s state and what Level.save met, and whether
\* vertical_movement_collision raised GameOver.
NoObs == [hazard |-> FALSE, lastdir |-> 0, up |-> FALSE, jumps |-> 0, dy1 |-> 0,
          killed |-> FALSE, landed |-> FALSE, save |-> FALSE,
          io |-> [set |-> "none", post |-> "none"], over |-> FALSE]

LevelMap ==
    <<<<" ", " ", " ", "X", "X", "X", "X">>,
      <<" ", " ", " ", "X", " ", " ", " ">>,
      <<" ", " ", " ", "X", "P", "C", "D">>,
      <<" ", " ", "E", " ", " ", " ", " ">>>>
Levels == {LevelMap}

CountCollectable(ts) == Cardinality({i \in 1..Len(ts) : ts[i].collectable})

IdleShooter == [bullets |-> <<>>, last_shot |-> 0]

\* Level.__init__ on one of the layouts; settings and game.py hand it over.
Init ==
    /\ layout \in Levels
    /\ built = [ok |-> TRUE]
    /\ spawn_sprites(layout).ok
    /\ tiles = spawn_sprites(layout).tiles
    /\ player = spawn_sprites(layout).player
    /\ enemies = spawn_sprites(layout).enemies
    /\ world_shift = 0
    /\ current_x = 0
    /\ pc = "running"
    /\ obs = NoObs
    /\ coins0 = CountCollectable(spawn_sprites(layout).tiles)
    /\ now = 0
    /\ shooter = IdleShooter
    /\ db = setup(layout)
    /\ dust = NoDust
    /\ anim = NoAnim

Next == \E keys \in KeyStates : Run(keys) /\ UNCHANGED <<dust, anim>>

Spec == Init /\ [][Next]_vars

\* A solid, non-killing tile that intersects character c and lies on the
\* side dir (-1 left, 1 right) of it.
SolidInDirection(c, ts, dir) ==
    \E i \in 1..Len(ts) :
        /\ ts[i].collides /\ ~ts[i].kills /\ colliderect(ts[i], c)
        /\ \/ dir < 0 /\ Left(ts[i]) < Left(c)
           \/ dir > 0 /\ Right(ts[i]) > Right(c)

\* C1: at the end of every frame no character intersects a solid non-killing
\* tile lying in the direction of its last horizontal movement, whatever the
\* keys were and also when the world shift moved the tiles.
C1_NoOverlapInLastDirection ==
    /\ ~SolidInDirection(player, tiles, obs.lastdir)
    /\ \A i \in 1..Len(enemies) : ~SolidInDirection(enemies[i], tiles, enemies[i].dx)

\* C2: a frame in which the player's rectangle overlaps a hazard tile ends
\* with GameOver raised.
C2_HazardEndsLevel == obs.hazard => pc = "gameover"

\* C3: the score equals the number of collectable tiles removed so far.
C3_ScoreCountsCoins == player.score + CountCollectable(tiles) = coins0
C3_Witness ==
    /\ pc = "running" /\ coins0 = 1
    /\ player.score = 1 /\ CountCollectable(tiles) = 0

\* The PlayerState the rule "JUMP if vy < 0, else FALL if vy > 1, else RUN if
\* vx # 0, else IDLE" gives; vy in tenths.
StateOf(vx, vy) ==
    IF vy < 0 THEN "JUMP"
    ELSE IF vy > 10 THEN "FALL"
    ELSE IF vx # 0 THEN "RUN"
    ELSE "IDLE"

\* C4 as stated: the state of a frame is that rule applied to the horizontal
\* velocity direction.x * speed and to direction.y as the input step left it.
C4_StateFromVelocity ==
    player.status = StateOf(player.dx * player.speed, obs.dy1)
\* C4 as the code has it: the rule is applied to direction.x itself, so that
\* the state is RUN while the camera pans and speed is 0.
C4_StateFromDirection ==
    player.status = StateOf(player.dx, obs.dy1)
C4_Witness ==
    /\ player.status = "RUN" /\ player.dx # 0 /\ player.speed = 0
    /\ world_shift # 0

\* C5: the input step sets direction.y to the jump impulse and calls
\* create_jump_particles once exactly when K_UP is held and BOTTOM is in the
\* collision set it finds; otherwise it leaves direction.y alone and makes no
\* call.
C5_InputStep ==
    LET fired == obs'.up /\ "BOTTOM" \in player.collisions
    IN  /\ obs'.jumps = IF fired THEN 1 ELSE 0
        /\ obs'.dy1 = IF fired THEN PLAYER_JUMP ELSE player.dy
C5_JumpIffGrounded == [][C5_InputStep]_vars
C5_Witness ==
    /\ obs.up /\ obs.jumps = 1 /\ obs.dy1 = PLAYER_JUMP
    /\ player.dy = PLAYER_JUMP + GRAVITY /\ "BOTTOM" \notin player.collisions

(***************************************************************************)
(* SpecBuild: Level.__init__ on every small layout                         *)
(***************************************************************************)
\* The characters a layout row is drawn from: the six cell codes and one
\* character that is no cell code.
Cells == {" ", "X", "P", "E", "C", "D", "?"}

\* A layout has at most MaxCells cells.
MaxCells == 4
Shapes == {rc \in (1..MaxCells) \X (1..MaxCells) : rc[1] * rc[2] <= MaxCells}
BuildLayouts == UNION {[1..rc[1] -> [1..rc[2] -> Cells]] : rc \in Shapes}

InitBuild ==
    /\ layout \in BuildLayouts
    /\ built = [ok |-> FALSE, error |-> "none"]
    /\ pc = "build"
    /\ tiles = <<>>
    /\ player = NoPlayer
    /\ enemies = <<>>
    /\ world_shift = 0
    /\ current_x = 0
    /\ obs = NoObs
    /\ coins0 = 0
    /\ now = 0
    /\ shooter = IdleShooter
    /\ db = setup(layout)
    /\ dust = NoDust
    /\ anim = NoAnim

\* level = Level(level_map, screen): on a ValueError no Level exists.
Construct ==
    /\ pc = "build"
    /\ pc' = "built"
    /\ built' = spawn_sprites(layout)
    /\ IF built'.ok
       THEN /\ tiles' = built'.tiles
            /\ player' = built'.player
            /\ enemies' = built'.enemies
            /\ coins0' = CountCollectable(built'.tiles)
       ELSE UNCHANGED <<tiles, player, enemies, coins0>>
    /\ UNCHANGED <<world_shift, current_x, obs, layout, now, shooter, db, dust, anim>>

NextBuild == Construct

SpecBuild == InitBuild /\ [][NextBuild]_vars

\* The cells of a layout holding a given character, as <<row, column>>.
CellsOf(lay, ch) ==
    {rc \in (1..Len(lay)) \X (1..MaxCells) : rc[2] <= Len(lay[rc[1]]) /\ lay[rc[1]][rc[2]] = ch}
CountOf(lay, ch) == Cardinality(CellsOf(lay, ch))
HasBadCell(lay) ==
    \E r \in 1..Len(lay) : \E c \in 1..Len(lay[r]) : lay[r][c] \notin CellTypes
\* The last cell of a set in row-major order.
LastCell(S) ==
    CHOOSE rc \in S : \A o \in S : o[1] < rc[1] \/ (o[1] = rc[1] /\ o[2] <= rc[2])
NoLevel == tiles = <<>> /\ player = NoPlayer /\ enemies = <<>>

\* C9: constructing a Level from a layout with no P cell fails with a
\* ValueError and leaves no Level behind.
C9_NoPlayerFails ==
    (pc = "built" /\ CountOf(layout, "P") = 0)
        => (~built.ok /\ built.error = "ValueError" /\ NoLevel)
C9_Witness ==
    /\ pc = "built" /\ CountOf(layout, "P") = 0 /\ CountOf(layout, "X") > 0
    /\ ~HasBadCell(layout) /\ ~built.ok

\* C10 as stated: a layout whose number of P cells is not exactly one does
\* not construct.
C10_ExactlyOneRequired ==
    (pc = "built" /\ CountOf(layout, "P") # 1) => ~built.ok
\* C10 as the code has it: construction fails exactly when there is no P cell
\* (or a character that is no cell code); with two or more P cells it succeeds
\* and the player stands at the last P cell in row-major order.
C10_AtLeastOneRequired ==
    pc = "built" =>
        /\ built.ok <=> (CountOf(layout, "P") >= 1 /\ ~HasBadCell(layout))
        /\ built.ok =>
            LET rc == LastCell(CellsOf(layout, "P"))
            IN  player.x = (rc[2] - 1) * tile_size /\ player.y = (rc[1] - 1) * tile_size
C10_Witness ==
    pc = "built" /\ CountOf(layout, "P") >= 2 /\ built.ok /\ player # NoPlayer

(***************************************************************************)
(* SpecShoot: the Shooter part of Player.update, frame by frame            *)
(*                                                                         *)
(* Bullets and the cooldown neither read nor write the collision state of  *)
(* the level, so they are followed on their own with the player standing   *)
(* where LevelMap spawns it.  time() is in milliseconds; the two reads of  *)
(* it in shoot() are taken as one instant.                                 *)
(***************************************************************************)
\* Player.x and Player.y: the centre a bullet is spawned at.
PlayerX(p) == p.x + (p.w \div 2)
PlayerY(p) == p.y + (p.h \div 2)

\* Bullet.__init__; drawn tells whether the last display_bullets drew it.
Bullet(x, y, orientation, speed) ==
    [x |-> x, y |-> y, spawn_x |-> x, orientation |-> orientation, speed |-> speed,
     is_alive |-> TRUE, drawn |-> FALSE]

\* Bullet.update that kills the sprite but leaves is_alive set.
BulletUpdate_no_flag(b) ==
    LET x == IF b.orientation = "LEFT" THEN b.x - b.speed ELSE b.x + b.speed
    IN  [b EXCEPT !.x = x]

\* Bullet.update
BulletUpdate(b) ==
    LET x == IF b.orientation = "LEFT" THEN b.x - b.speed ELSE b.x + b.speed
    IN  IF Abs(x - b.spawn_x) > BULLET_RANGE
        THEN [b EXCEPT !.x = x, !.is_alive = FALSE]
        ELSE [b EXCEPT !.x = x]

\* Shooter.shoot without the cooldown test.
shoot_no_cooldown(sh, t, x, y, orientation) ==
    [sh EXCEPT !.bullets = Append(@, Bullet(x, y, orientation, BULLET_SPEED)),
               !.last_shot = t]

\* Shooter.shoot at time t by a shooter at (x, y)
shoot(sh, t, x, y, orientation) ==
    IF t - sh.last_shot > SHOOT_DELAY
    THEN [sh EXCEPT !.bullets = Append(@, Bullet(x, y, orientation, BULLET_SPEED)),
                    !.last_shot = t]
    ELSE sh

\* Shooter.display_bullets: every bullet of the list is put in a fresh
\* GroupSingle, updated, and drawn if the update left it in the group.
display_bullets(sh) ==
    [sh EXCEPT !.bullets =
        [i \in 1..Len(sh.bullets) |->
            LET b == BulletUpdate(sh.bullets[i])
            IN  [b EXCEPT !.drawn = Abs(b.x - b.spawn_x) <= BULLET_RANGE]]]

\* Frame durations, in ms, and the frames the run is followed for; K_SPACE is
\* pressed during the first MaxShotFrames frames only.
DtShort == 50
DtMid == 130
DtLong == 200
FrameTimes == {DtShort, DtMid, DtLong}
MaxShotFrames == 3
MaxFrames == 84
\* time() when the level starts.
Epoch == 1000

InitShoot ==
    /\ layout = LevelMap
    /\ built = [ok |-> TRUE]
    /\ player = spawn_sprites(LevelMap).player
    /\ tiles = <<>>
    /\ enemies = <<>>
    /\ world_shift = 0
    /\ current_x = 0
    /\ coins0 = 0
    /\ pc = "shooting"
    /\ obs = [frames |-> 0, request |-> FALSE]
    /\ now = Epoch
    /\ shooter = IdleShooter
    /\ db = setup(layout)
    /\ dust = NoDust
    /\ anim = NoAnim

\* The K_SPACE branch of handle_key_presses and display_bullets, as one frame
\* of Player.update runs them, dt after the previous frame.
ShooterFrame(space, orientation, dt) ==
    /\ pc = "shooting"
    /\ obs.frames < MaxFrames
    /\ obs.frames >= MaxShotFrames => (~space /\ dt = DtShort)
    /\ ~space => orientation = "RIGHT"
    /\ now' = now + dt
    /\ LET o  == SetOrientation(player, orientation)
           s1 == IF space THEN shoot(shooter, now', PlayerX(o), PlayerY(o), orientation)
                 ELSE shooter
       IN  shooter' = display_bullets(s1)
    /\ obs' = [frames |-> obs.frames + 1, request |-> space]
    /\ UNCHANGED <<pc, tiles, player, enemies, world_shift, current_x, coins0, layout, built, db,
                   dust, anim>>

NextShoot ==
    \E space \in BOOLEAN, orientation \in {"LEFT", "RIGHT"}, dt \in FrameTimes :
        ShooterFrame(space, orientation, dt)

SpecShoot == InitShoot /\ [][NextShoot]_vars

\* C6: a shoot request appends exactly one bullet and stamps last_shot when
\* more than SHOOT_DELAY has passed since last_shot, and otherwise changes
\* neither; a frame without a request fires nothing, and bullets already in
\* the list stay the bullets they were.
C6_Request ==
    LET ok == obs'.request /\ now' - shooter.last_shot > SHOOT_DELAY
        n  == Len(shooter.bullets)
    IN  /\ Len(shooter'.bullets) = n + (IF ok THEN 1 ELSE 0)
        /\ shooter'.last_shot = IF ok THEN now' ELSE shooter.last_shot
        /\ \A i \in 1..n :
              /\ shooter'.bullets[i].spawn_x = shooter.bullets[i].spawn_x
              /\ shooter'.bullets[i].orientation = shooter.bullets[i].orientation
        /\ ok => /\ shooter'.bullets[n + 1].spawn_x = PlayerX(player)
                 /\ shooter'.bullets[n + 1].is_alive
C6_Cooldown == [][C6_Request]_vars
\* Two requests DtShort apart have left one bullet.
C6_Witness ==
    /\ obs.request /\ obs.frames = 2
    /\ now - shooter.last_shot = DtShort
    /\ Len(shooter.bullets) = 1

\* C7: after an update a bullet further than BULLET_RANGE from its spawn
\* point is dead, and a dead bullet is dead after every later update.
C7_Update ==
    /\ \A i \in 1..Len(shooter'.bullets) :
          LET b == shooter'.bullets[i]
          IN  Abs(b.x - b.spawn_x) > BULLET_RANGE => ~b.is_alive
    /\ \A i \in 1..Len(shooter.bullets) :
          ~shooter.bullets[i].is_alive =>
              (i <= Len(shooter'.bullets) /\ ~shooter'.bullets[i].is_alive)
C7_DeadBeyondRange == [][C7_Update]_vars
C7_Witness ==
    \E i \in 1..Len(shooter.bullets) :
        LET b == shooter.bullets[i]
        IN  /\ ~b.is_alive /\ b.orientation = "LEFT"
            /\ Abs(b.x - b.spawn_x) > BULLET_RANGE + b.speed

\* C8: a dead bullet is gone from the shooter's list in every frame after the
\* one it died in and is not advanced again: a dead bullet found in the list
\* has made only the move that took it out of range.
C8_DeadBulletsDiscarded ==
    \A i \in 1..Len(shooter.bullets) :
        LET b == shooter.bullets[i]
        IN  ~b.is_alive => Abs(b.x - b.spawn_x) - b.speed <= BULLET_RANGE

\* The solid, non-killing tiles of a group.
SolidTiles(ts) == {i \in 1..Len(ts) : ts[i].collides /\ ~ts[i].kills}
TileAtCell(t, rc) == t.x = (rc[2] - 1) * tile_size /\ t.y = (rc[1] - 1) * tile_size

\* C11: a layout over the cell codes with exactly one P constructs, the player
\* stands at its P cell, and the solid non-killing tiles are one per X cell,
\* each at the pixel position of its cell.
C11_WallsMatchXCells ==
    (pc = "built" /\ CountOf(layout, "P") = 1 /\ ~HasBadCell(layout)) =>
        /\ built.ok
        /\ TileAtCell(player, LastCell(CellsOf(layout, "P")))
        /\ Cardinality(SolidTiles(tiles)) = CountOf(layout, "X")
        /\ \A i \in SolidTiles(tiles) : \E rc \in CellsOf(layout, "X") : TileAtCell(tiles[i], rc)
        /\ \A rc \in CellsOf(layout, "X") : \E i \in SolidTiles(tiles) : TileAtCell(tiles[i], rc)

(***************************************************************************)
(* SpecCamera: handle_horizontal_movement on every on-screen position      *)
(***************************************************************************)
\* The player anywhere on the screen row LevelMap spawns it in, with the
\* direction.x and speed the previous frame left.
CameraPlayers ==
    {[NewPlayer(x, 2 * tile_size) EXCEPT !.dx = d, !.speed = s] :
        x \in 0..(screen_width - PlayerW), d \in {-1, 0, 1}, s \in {0, PLAYER_MOVEMENT * 10}}

InitCamera ==
    /\ player \in CameraPlayers
    /\ world_shift \in {-(PLAYER_MOVEMENT * 2), 0, PLAYER_MOVEMENT * 2}
    /\ (world_shift = 0) <=> (player.speed # 0)
    /\ pc = "camera"
    /\ layout = LevelMap
    /\ built = [ok |-> TRUE]
    /\ tiles = <<>>
    /\ enemies = <<>>
    /\ current_x = 0
    /\ coins0 = 0
    /\ obs = NoObs
    /\ now = 0
    /\ shooter = IdleShooter
    /\ db = setup(layout)
    /\ dust = NoDust
    /\ anim = NoAnim

\* self.handle_horizontal_movement()
Pan ==
    /\ pc = "camera"
    /\ pc' = "panned"
    /\ world_shift' = handle_horizontal_movement(player).shift
    /\ player' = [player EXCEPT !.speed = handle_horizontal_movement(player).speed]
    /\ UNCHANGED <<tiles, enemies, current_x, obs, coins0, layout, built, now, shooter, db, dust, anim>>

NextCamera == Pan

SpecCamera == InitCamera /\ [][NextCamera]_vars

\* C12: left of screen_width/4 and moving left the world shift is +16 and the
\* speed 0; right of 3*screen_width/4 and moving right the shift is -16 and the
\* speed 0; otherwise the shift is 0 and the speed 8.  So the shift is one of
\* -16, 0, 16 and the speed is 0 exactly when the shift is not 0.
C12_CameraRule ==
    pc = "panned" =>
        LET cx == CenterX(player)
            dx == player.dx
        IN  /\ (4 * cx < screen_width /\ dx < 0)
                  => (world_shift = 16 /\ player.speed = 0)
            /\ (~(4 * cx < screen_width /\ dx < 0) /\ 4 * cx > 3 * screen_width /\ dx > 0)
                  => (world_shift = -16 /\ player.speed = 0)
            /\ (~(4 * cx < screen_width /\ dx < 0) /\ ~(4 * cx > 3 * screen_width /\ dx > 0))
                  => (world_shift = 0 /\ player.speed = 80)
            /\ world_shift \in {-16, 0, 16}
            /\ (player.speed = 0) <=> (world_shift # 0)
C12_Witness ==
    /\ pc = "panned" /\ world_shift = -16 /\ player.speed = 0
    /\ 4 * CenterX(player) > 3 * screen_width /\ player.dx > 0

\* C13: when vertical collision resolution has run to its end, BOTTOM is in
\* the collision set only if 0 <= direction.y <= 1 and TOP only if
\* direction.y <= 0.1; a player whose direction.y is above 1 both when the
\* state is computed and after the resolution is in state FALL without BOTTOM.
C13_FlagsFollowVelocity ==
    pc = "running" =>
        /\ "BOTTOM" \in player.collisions => (0 <= player.dy /\ player.dy <= 10)
        /\ "TOP" \in player.collisions => player.dy <= 1
        /\ (obs.dy1 > 10 /\ player.dy > 10) =>
              (player.status = "FALL" /\ "BOTTOM" \notin player.collisions)
C13_Witness ==
    /\ pc = "running" /\ obs.dy1 > 10 /\ player.dy > 10
    /\ player.status = "FALL" /\ "BOTTOM" \notin player.collisions

\* C14: when the player's rectangle intersects a killing tile in the
\* horizontal collision step, that step kills the player.
C14_HorizontalKill == obs.hazard => obs.killed

\* C19: a jump impulse is applied only to a player that vertical collision
\* resolution has set on top of a solid tile since the previous impulse (or
\* since the level began), whatever keys are held.
C19_JumpAfterLanding ==
    obs'.jumps > 0 => obs.landed
C19_NoAirJump == [][C19_JumpAfterLanding]_vars

\* The world shift the camera rule gives for a player centred at cx with
\* direction.x dx.
ShiftFor(cx, dx) ==
    IF 4 * cx < screen_width /\ dx < 0 THEN 16
    ELSE IF 4 * cx > 3 * screen_width /\ dx > 0 THEN -16
    ELSE 0

\* C15 as stated: the camera step comes after the frame's input and collision
\* resolution, so the world shift a frame leaves is the camera rule applied to
\* the player as the collision resolution left it.
C15_ShiftFromResolvedPlayer ==
    world_shift' = ShiftFor(CenterX(player'), player'.dx)
C15_CameraAfterCollisions == [][C15_ShiftFromResolvedPlayer]_vars
\* C15 as the code has it: the frame first moves the tiles by the shift the
\* previous frame computed, then runs the camera step on the player as the
\* previous frame left it, and only then reads the input and resolves the
\* collisions.
C15_ShiftFromPreviousPlayer ==
    /\ world_shift' = ShiftFor(CenterX(player), player.dx)
    /\ \A j \in 1..Len(tiles') : \E i \in 1..Len(tiles) :
          tiles'[j] = [tiles[i] EXCEPT !.x = @ + world_shift]
C15_CameraBeforeInput == [][C15_ShiftFromPreviousPlayer]_vars
\* A frame after which the two orders disagree, reached with the tiles moved.
C15_Witness ==
    /\ pc = "running"
    /\ world_shift # ShiftFor(CenterX(player), player.dx)
    /\ tiles[1].x # 3 * tile_size

-----------------------------------------------------------------------------
\* save.py: the Save record and its JSON-shaped representation.

MaxScore == 2
MaxLevel == 1

\* Maps a save can carry: no row, empty rows, rows with cells.
SaveMaps == {<<>>, <<"">>, <<"", "">>, <<"P">>, <<"", "XP">>, <<"XP", "">>, LevelMap}

Saves ==
    {Save(n, s, l, m, c) : n \in {"", "first", "Player 1"}, s \in -1..MaxScore,
                           l \in 0..MaxLevel, m \in SaveMaps,
                           c \in {"", "today"}}

NoJson == [k \in {} |-> 0]

InitSave ==
    /\ pc = "save"
    /\ obs \in {[save |-> s, json |-> NoJson, loaded |-> s] : s \in Saves}
    /\ player = NoPlayer
    /\ layout = LevelMap
    /\ built = [ok |-> TRUE]
    /\ tiles = <<>>
    /\ enemies = <<>>
    /\ world_shift = 0
    /\ current_x = 0
    /\ coins0 = 0
    /\ now = 0
    /\ shooter = IdleShooter
    /\ db = setup(layout)
    /\ dust = NoDust
    /\ anim = NoAnim

\* json = save.to_json()
Serialize ==
    /\ pc = "save"
    /\ pc' = "json"
    /\ obs' = [obs EXCEPT !.json = to_json(obs.save)]
    /\ UNCHANGED <<tiles, player, enemies, world_shift, current_x, coins0,
                   layout, built, now, shooter, db, dust, anim>>

\* Save.from_json(json)
Deserialize ==
    /\ pc = "json"
    /\ pc' = "loaded"
    /\ obs' = [obs EXCEPT !.loaded = from_json(obs.json)]
    /\ UNCHANGED <<tiles, player, enemies, world_shift, current_x, coins0,
                   layout, built, now, shooter, db, dust, anim>>

NextSave == Serialize \/ Deserialize

SpecSave == InitSave /\ [][NextSave]_vars

SaveKeys == {"name", "score", "level", "map", "created_at"}

\* C16: for every Save record, to_json yields exactly the five keys name,
\* score, level, map, created_at, and from_json of that representation is a
\* Save equal to the original, field by field (maps with empty rows
\* included).
C16_RoundTrip ==
    /\ pc \in {"json", "loaded"} =>
        /\ DOMAIN obs.json = SaveKeys
        /\ obs.json["name"] = obs.save.name
        /\ obs.json["score"] = obs.save.score
        /\ obs.json["level"] = obs.save.level
        /\ obs.json["map"] = obs.save.map
        /\ obs.json["created_at"] = obs.save.created_at
    /\ pc = "loaded" =>
        /\ obs.loaded = obs.save
        /\ obs.loaded.score = obs.save.score
        /\ obs.loaded.level = obs.save.level

\* A save with an empty first row and distinct score and level has made the
\* round trip.
C16_Witness ==
    /\ pc = "loaded"
    /\ obs.save.map = <<"", "XP">>
    /\ obs.save.score = MaxScore
    /\ obs.save.level = 0
    /\ obs.loaded = obs.save

-----------------------------------------------------------------------------
\* The frames of Level.run that may press K_s: the tail of run reaches
\* Level.save, which calls update_db and then save_to_api.

PersistKeys ==
    {k \in [right : BOOLEAN, left : {FALSE}, up : {FALSE}, escape : BOOLEAN,
            save : BOOLEAN] :
        k.escape => ~k.right}

NextPersist == \E keys \in PersistKeys : Run(keys) /\ UNCHANGED <<dust, anim>>

SpecPersist == Init /\ [][NextPersist]_vars

\* A frame that called db.set with success wrote key k and nothing else: the
\* frame had K_s pressed, the value under k is a save record with the
\* player's score, and every other key of the store is as it was.
WroteOnly(k) ==
    /\ obs'.io.set = "ok" =>
        /\ obs'.save
        /\ k \in DOMAIN db'
        /\ DOMAIN db'[k] = SaveKeys
        /\ db'[k]["score"] = player'.score
    /\ obs'.io.set # "ok" => db' = db
    /\ \A j \in DOMAIN db' \ {k} : j \in DOMAIN db /\ db'[j] = db[j]

\* C17 as stated: the level writes to the store only in a frame where the
\* save key is pressed, every such write is set("current_save", record) with
\* the player's current score in the record, and no other key is written.
C17_WritesCurrentSave == [][WroteOnly("current_save")]_vars

\* C17: the level writes to the store only in a frame where the save key is
\* pressed (and the frame did not end the level first); every such write is
\* set("Player 1", record), the key being the name field of the save, where
\* record is the serialized save with the player's current score; no other
\* key of the store is written by the level during play.
C17_WritesSaveName == [][WroteOnly("Player 1")]_vars

\* A save was stored after the coin was collected, and the frame loop goes on.
C17_Witness ==
    /\ pc = "running"
    /\ obs.save
    /\ obs.io.set = "ok"
    /\ "Player 1" \in DOMAIN db
    /\ player.score > 0
    /\ db["Player 1"]["score"] = player.score

\* C18: a persistence failure during a save (db.set raising, requests.post
\* raising or answering a status other than 200) is non-fatal: the frame loop
\* goes on with the next frame.
C18_FailureNonFatal ==
    (obs.io.set = "raises" \/ obs.io.post \in {"500", "raises"}) => pc = "running"

-----------------------------------------------------------------------------
\* Character.handle_collisions on its own: every collision set, rectangles
\* and animation frames of different sizes.

AnchorOrigin == 2
AnchorSizes == {PlayerW - 1, PlayerW, EnemyW}

Collisions == {"TOP", "BOTTOM", "LEFT", "RIGHT"}

AnchorCharacters ==
    {[NewPlayer(x, y) EXCEPT !.w = w, !.h = h, !.collisions = cs] :
        x \in {-AnchorOrigin, AnchorOrigin + 1}, y \in {-AnchorOrigin, AnchorOrigin + 1},
        w \in {PlayerW - 1, PlayerW}, h \in {PlayerH},
        cs \in SUBSET Collisions}

InitAnchor ==
    /\ pc = "anchor"
    /\ player \in AnchorCharacters
    /\ obs \in {[before |-> player, iw |-> iw, ih |-> ih] :
                    iw \in AnchorSizes, ih \in {PlayerH, EnemyH}}
    /\ layout = LevelMap
    /\ built = [ok |-> TRUE]
    /\ tiles = <<>>
    /\ enemies = <<>>
    /\ world_shift = 0
    /\ current_x = 0
    /\ coins0 = 0
    /\ now = 0
    /\ shooter = IdleShooter
    /\ db = setup(layout)
    /\ dust = NoDust
    /\ anim = NoAnim

\* self.handle_collisions() with self.image the frame animate picked
Anchor ==
    /\ pc = "anchor"
    /\ pc' = "anchored"
    /\ player' = handle_collisions(player, obs.iw, obs.ih)
    /\ UNCHANGED <<tiles, enemies, world_shift, current_x, obs, coins0,
                   layout, built, now, shooter, db, dust, anim>>

NextAnchor == Anchor

SpecAnchor == InitAnchor /\ [][NextAnchor]_vars

\* The priority order of the anchors: the collision edges each one needs and
\* the point of the rectangle it keeps.
AnchorOrder ==
    <<[needs |-> {"BOTTOM", "RIGHT"}, at |-> "bottomright"],
      [needs |-> {"BOTTOM", "LEFT"},  at |-> "bottomleft"],
      [needs |-> {"TOP", "RIGHT"},    at |-> "topright"],
      [needs |-> {"TOP", "LEFT"},     at |-> "topleft"],
      [needs |-> {"BOTTOM"},          at |-> "midbottom"],
      [needs |-> {"TOP"},             at |-> "midtop"]>>

Matches(cs) == {i \in 1..Len(AnchorOrder) : AnchorOrder[i].needs \subseteq cs}

FirstMatch(cs) == CHOOSE i \in Matches(cs) : \A j \in Matches(cs) : i <= j

PointOf(r, at) ==
    <<IF at \in {"bottomright", "topright"} THEN Right(r)
      ELSE IF at \in {"bottomleft", "topleft"} THEN Left(r)
      ELSE CenterX(r),
      IF at \in {"bottomright", "bottomleft", "midbottom"} THEN Bottom(r)
      ELSE Top(r)>>

\* C20: for every subset of {TOP, BOTTOM, LEFT, RIGHT}, handle_collisions
\* leaves the rectangle alone when the set holds neither TOP nor BOTTOM, and
\* otherwise makes the one re-anchor given by the first match in the order
\* BOTTOM+RIGHT, BOTTOM+LEFT, TOP+RIGHT, TOP+LEFT, BOTTOM, TOP: the rectangle
\* takes the size of the image and the anchor point keeps its coordinates.
C20_AnchorPriority ==
    pc = "anchored" =>
        IF Matches(obs.before.collisions) = {}
        THEN player = obs.before
        ELSE LET at == AnchorOrder[FirstMatch(obs.before.collisions)].at
             IN  /\ PointOf(player, at) = PointOf(obs.before, at)
                 /\ player.w = obs.iw /\ player.h = obs.ih
                 /\ player = [obs.before EXCEPT !.x = player.x, !.y = player.y,
                                                !.w = obs.iw, !.h = obs.ih]

\* A character touching BOTTOM, TOP and RIGHT got a narrower, taller image and
\* kept its bottom right corner.
C20_Witness ==
    /\ pc = "anchored"
    /\ obs.before.collisions = {"BOTTOM", "TOP", "RIGHT"}
    /\ obs.iw < obs.before.w /\ obs.ih > obs.before.h
    /\ PointOf(player, "bottomright") = PointOf(obs.before, "bottomright")
    /\ player.x > obs.before.x /\ player.y < obs.before.y

-----------------------------------------------------------------------------
\* Level.horizontal_movement_collision and Level.vertical_movement_collision
\* of the player on their own, against one or two solid tiles in either
\* group order.

ResolveCells == 2
ResolveSpan == 4
ResolveInset == 40

\* Walls on a grid of ResolveCells x ResolveCells cells that starts one cell
\* in from the origin.
ResolveSquares ==
    {Square(c * tile_size, r * tile_size, SheetTile * 4, TRUE, FALSE, FALSE) :
        c \in 1..ResolveCells, r \in 1..ResolveCells}

ResolveTiles ==
    {<<t>> : t \in ResolveSquares}
        \cup {<<p[1], p[2]>> : p \in {q \in ResolveSquares \X ResolveSquares : q[1] # q[2]}}

\* Players around and inside the walls: walking or standing, rising or
\* falling, panned (speed 0) or not, with LEFT/RIGHT flags of earlier frames.
ResolvePlayers ==
    {[NewPlayer(tile_size - ResolveInset + i * (tile_size \div 2),
                tile_size - ResolveInset + j * (tile_size \div 2))
        EXCEPT !.dx = d, !.speed = s, !.dy = v, !.collisions = cs] :
        i \in 0..ResolveSpan, j \in 0..(ResolveSpan - 2), d \in {-1, 0, 1},
        s \in {0, PLAYER_MOVEMENT * 10},
        v \in {PLAYER_JUMP \div 2, PLAYER_MOVEMENT * GRAVITY},
        cs \in SUBSET {"LEFT", "RIGHT"}}

InitResolve ==
    /\ pc = "horizontal"
    /\ tiles \in ResolveTiles
    /\ player \in ResolvePlayers
    /\ current_x \in {0, (ResolveCells + 1) * tile_size}
    /\ obs = [c0 |-> player, h |-> player]
    /\ enemies = <<>>
    /\ world_shift = 0
    /\ coins0 = 0
    /\ layout = LevelMap
    /\ built = [ok |-> TRUE]
    /\ now = 0
    /\ shooter = IdleShooter
    /\ db = setup(layout)
    /\ dust = NoDust
    /\ anim = NoAnim

\* self.horizontal_movement_collision(self.player.sprite)
HResolve ==
    /\ pc = "horizontal"
    /\ pc' = "vertical"
    /\ LET h == horizontal_movement_collision(player, tiles, current_x, FALSE)
       IN  /\ player' = h.c
           /\ current_x' = h.cx
           /\ obs' = [obs EXCEPT !.h = h.c]
    /\ UNCHANGED <<tiles, enemies, world_shift, coins0, layout, built, now,
                   shooter, db, dust, anim>>

\* self.vertical_movement_collision()
VResolve ==
    /\ pc = "vertical"
    /\ pc' = "resolved"
    /\ LET v == vertical_movement_collision(player, tiles)
       IN  /\ player' = v.p
           /\ tiles' = v.tiles
    /\ UNCHANGED <<enemies, world_shift, current_x, obs, coins0, layout, built,
                   now, shooter, db, dust, anim>>

NextResolve == HResolve \/ VResolve

SpecResolve == InitResolve /\ [][NextResolve]_vars

\* The rectangle of character c after `rect.x += direction.x * speed`.
Stepped(c) == [c EXCEPT !.x = c.x + c.dx * (c.speed \div 10)]

Overlapping(c, ts) == {i \in 1..Len(ts) : colliderect(ts[i], c)}

\* C21: when horizontal resolution snaps a left-moving character against a
\* solid tile, its left edge is the tile's right edge, LEFT is in its
\* CollisionSet and current_x is that same edge; when it snaps a right-moving
\* character, its right edge is the tile's left edge, RIGHT is in the set and
\* current_x is that edge.
C21_SnapRecordsEdge ==
    (pc = "vertical" /\ Overlapping(Stepped(obs.c0), tiles) # {}) =>
        /\ obs.c0.dx < 0 =>
            /\ \E i \in 1..Len(tiles) : Left(player) = Right(tiles[i])
            /\ "LEFT" \in player.collisions
            /\ current_x = Left(player)
        /\ obs.c0.dx > 0 =>
            /\ \E i \in 1..Len(tiles) : Right(player) = Left(tiles[i])
            /\ "RIGHT" \in player.collisions
            /\ current_x = Right(player)

\* C22: at the end of every horizontal resolution of a character, LEFT is in
\* its CollisionSet only if direction.x < 0 and its left edge is not left of
\* current_x, RIGHT only if direction.x > 0 and its right edge is not right
\* of current_x; so LEFT and RIGHT are never both present.
C22_SideFlagsFollowDirection ==
    pc = "vertical" =>
        /\ "LEFT" \in player.collisions =>
            (player.dx < 0 /\ Left(player) >= current_x)
        /\ "RIGHT" \in player.collisions =>
            (player.dx > 0 /\ Right(player) <= current_x)
        /\ ~({"LEFT", "RIGHT"} \subseteq player.collisions)

\* A player that came in with a RIGHT flag of an earlier frame walked left
\* into a wall: RIGHT is gone and LEFT is set.
C22_Witness ==
    /\ pc = "vertical"
    /\ obs.c0.collisions = {"RIGHT"}
    /\ player.collisions = {"LEFT"}
    /\ player.dx < 0
    /\ Left(player) >= current_x

-----------------------------------------------------------------------------
\* The frame loop under its scheduling: `while True` in game.main runs
\* Level.run again as long as it can.
SpecPatrol == Init /\ [][NextPersist]_vars /\ WF_vars(NextPersist)

\* The enemy of index i is away from the place spawn_sprites gave it.
EnemyMoved(i) == enemies[i].x # spawn_sprites(layout).enemies[i].x

\* C23: enemies patrol: as long as the level keeps running, every enemy
\* spawned by the level is, in some frame, at an x-position other than its
\* spawn x.
C23_EnemiesPatrol ==
    <>(pc # "running" \/ ~InWorld \/ \A i \in 1..Len(enemies) : EnemyMoved(i))

\* Where a solid tile t puts the rectangle of a character c that it overlaps:
\* against the side it moves to, horizontally and vertically.
SnapX(c, t) ==
    IF ~colliderect(t, c) THEN c
    ELSE IF c.dx < 0 THEN [c EXCEPT !.x = Right(t)]
    ELSE IF c.dx > 0 THEN [c EXCEPT !.x = Left(t) - c.w]
    ELSE c

RECURSIVE SnapEach(_, _, _)
SnapEach(c, ts, i) ==
    IF i > Len(ts) THEN c ELSE SnapEach(SnapX(c, ts[i]), ts, i + 1)

FirstOf(S) == CHOOSE i \in S : \A j \in S : i <= j
LastOf(S) == CHOOSE i \in S : \A j \in S : j <= i

\* The player as the vertical pass meets it: after the horizontal pass and
\* after gravity.
Fallen == apply_gravity(obs.h)

\* C24 as stated: when a character overlaps two or more solid tiles in one
\* pass, its final snapped edge is the one dictated by the last overlapping
\* tile in tile iteration order, in the horizontal and in the vertical pass.
C24_LastWriteWins ==
    /\ (pc = "vertical" /\ Cardinality(Overlapping(Stepped(obs.c0), tiles)) >= 2) =>
        LET t == tiles[LastOf(Overlapping(Stepped(obs.c0), tiles))]
        IN  /\ obs.c0.dx < 0 => Left(player) = Right(t)
            /\ obs.c0.dx > 0 => Right(player) = Left(t)
    /\ (pc = "resolved" /\ Cardinality(Overlapping(Fallen, tiles)) >= 2) =>
        LET t == tiles[LastOf(Overlapping(Fallen, tiles))]
        IN  /\ Fallen.dy > 0 => Bottom(player) = Top(t)
            /\ Fallen.dy < 0 => Top(player) = Bottom(t)

\* C24: the tiles are tried one after another against the rectangle the
\* earlier tiles left.  In the horizontal pass every tile that overlaps at its
\* turn snaps the character again, so the final edge is dictated by the last
\* tile that overlaps at its turn, which need not overlap when the pass
\* starts.  In the vertical pass the first snap sets velocity.y to 0 and no
\* later tile moves the player: the final edge is dictated by the first
\* overlapping tile in tile iteration order.
C24_SnapOrder ==
    /\ pc = "vertical" => player.x = SnapEach(Stepped(obs.c0), tiles, 1).x
    /\ (pc = "resolved" /\ Overlapping(Fallen, tiles) # {}) =>
        LET t == tiles[FirstOf(Overlapping(Fallen, tiles))]
        IN  /\ Fallen.dy > 0 => Bottom(player) = Top(t)
            /\ Fallen.dy < 0 => Top(player) = Bottom(t)
            /\ player.dy = 0

\* A falling player overlapped two tiles of different height and rests on
\* the first of the group, not on the last.
C24_Witness ==
    /\ pc = "resolved"
    /\ Overlapping(Fallen, tiles) = {1, 2}
    /\ Fallen.dy > 0
    /\ Top(tiles[1]) # Top(tiles[2])
    /\ Bottom(player) = Top(tiles[1])
    /\ colliderect(tiles[2], player)

-----------------------------------------------------------------------------
\* A particle of N frames in the group of the level, updated once per frame
\* by `self.dust_sprite.update(self.world_shift)` until it leaves the group.

MaxParticleFrames == 6

InitParticle ==
    /\ pc = "particle"
    /\ dust \in {ParticleEffect(CenterX(NewPlayer(x, 0)), PlayerH, k, n) :
                    x \in {0, screen_width \div 2}, k \in {"JUMP", "LAND"},
                    n \in 1..MaxParticleFrames}
    /\ obs = [n |-> dust.n, updates |-> 0]
    /\ world_shift \in {-(PLAYER_MOVEMENT * 2), 0, PLAYER_MOVEMENT * 2}
    /\ player = NoPlayer
    /\ tiles = <<>>
    /\ enemies = <<>>
    /\ current_x = 0
    /\ coins0 = 0
    /\ layout = LevelMap
    /\ built = [ok |-> TRUE]
    /\ now = 0
    /\ shooter = IdleShooter
    /\ db = setup(layout)
    /\ anim = NoAnim

\* The particle lines of Level.run: dust_sprite.update(world_shift) and
\* dust_sprite.draw; handle_horizontal_movement then sets the next shift.
ParticleFrame ==
    /\ pc = "particle"
    /\ dust' = DustUpdate(dust, world_shift)
    /\ obs' = [obs EXCEPT !.updates = IF dust.alive THEN @ + 1 ELSE @]
    /\ world_shift' \in {-(PLAYER_MOVEMENT * 2), 0, PLAYER_MOVEMENT * 2}
    /\ UNCHANGED <<pc, tiles, player, enemies, current_x, coins0, layout, built,
                   now, shooter, db, anim>>

NextParticle == ParticleFrame

SpecParticle == InitParticle /\ [][NextParticle]_vars /\ WF_vars(NextParticle)

\* One update of a live particle of N frames: the index advances by 0.5 (one
\* half); if it is no longer below N the particle leaves the group, else the
\* image shown is the one of index int(frame_index), within 0..N-1.  A
\* particle that left the group never comes back.
C25_Update ==
    /\ ~dust.alive => ~dust'.alive
    /\ dust.alive =>
        /\ obs'.updates = obs.updates + 1
        /\ IF dust.idx2 + 1 >= 2 * obs.n
           THEN ~dust'.alive
           ELSE /\ dust'.alive
                /\ dust'.idx2 = dust.idx2 + 1
                /\ 2 * dust'.image \in {dust'.idx2 - 1, dust'.idx2}
                /\ dust'.image \in 0..(obs.n - 1)
                /\ dust'.n = obs.n

-----------------------------------------------------------------------------
\* Level.run with its particle group: the jump particle of
\* Player.handle_key_presses and the landing dust.

\* Level.create_jump_particles(pos) with pos = player.rect.midbottom
create_jump_particles(p, orientation) ==
    ParticleEffect(CenterX(p) + (IF orientation = "RIGHT" THEN -10 ELSE 10),
                   Bottom(p) - 5, "JUMP", JumpFrames)

\* Level.create_landing_dust: d the group, p the player after the collision
\* passes.
create_landing_dust(d, p) ==
    IF "BOTTOM" \in p.collisions /\ ~d.alive
    THEN ParticleEffect(CenterX(p) - (IF p.orientation = "RIGHT" THEN 10 ELSE -10),
                        Bottom(p) - 15, "LAND", LandFrames)
    ELSE d

\* Level.run, particle group included.
RunDust(keys) ==
    /\ Run(keys)
    /\ \E d1 \in {DustUpdate(dust, world_shift)} :
       \E d2 \in {IF obs'.jumps > 0
                  THEN create_jump_particles(SetOrientation(player, player'.orientation),
                                             player'.orientation)
                  ELSE d1} :
           dust' = IF obs'.over THEN d2 ELSE create_landing_dust(d2, player')
    /\ UNCHANGED anim

DustKeys == [right : {FALSE}, left : BOOLEAN, up : BOOLEAN, escape : {FALSE},
             save : {FALSE}]

NextDust == \E keys \in DustKeys : RunDust(keys)

SpecDust == Init /\ [][NextDust]_vars

\* The frame put a new landing particle into the group.
LandingDustSpawned == dust'.alive /\ dust'.kind = "LAND" /\ dust'.idx2 = 0

\* C26: a landing particle is spawned only in a frame in which the player
\* goes from not grounded (BOTTOM absent at the start of the frame) to
\* grounded (BOTTOM present after vertical resolution), not in later frames
\* while the player keeps standing.
C26_Landed ==
    LandingDustSpawned =>
        ("BOTTOM" \notin player.collisions /\ "BOTTOM" \in player'.collisions)
C26_DustOnlyOnLanding == [][C26_Landed]_vars

\* C27: the world shift of a frame is applied to all world-anchored entities
\* alike: every tile that stays, the particle that stays and every enemy are
\* displaced horizontally by the same world_shift, and a tile changes in
\* nothing but its x position.
C27_ShiftedAlike ==
    /\ \A j \in 1..Len(tiles') :
            \E i \in 1..Len(tiles) : tiles'[j] = [tiles[i] EXCEPT !.x = @ + world_shift]
    /\ (dust.alive /\ dust'.alive /\ dust'.idx2 > 0) =>
            dust' = [dust EXCEPT !.x = @ + world_shift, !.idx2 = dust'.idx2,
                                 !.image = dust'.image]
    /\ Len(enemies') = Len(enemies)
    /\ \A k \in 1..Len(enemies) : enemies'[k].x = enemies[k].x + world_shift
C27_WorldShiftForAll == [][C27_ShiftedAlike]_vars

-----------------------------------------------------------------------------
\* Level.run on an open floor, the player spawned inside the left quarter of
\* the screen: nothing but its own movement changes the player's x.

PanMap ==
    <<<<" ", " ", " ", " ", "P">>,
      <<"X", "X", "X", "X", "X", "X">>>>

InitPan ==
    /\ layout = PanMap
    /\ built = [ok |-> TRUE]
    /\ spawn_sprites(layout).ok
    /\ tiles = spawn_sprites(layout).tiles
    /\ player = spawn_sprites(layout).player
    /\ enemies = spawn_sprites(layout).enemies
    /\ world_shift = 0
    /\ current_x = 0
    /\ pc = "running"
    /\ obs = NoObs
    /\ coins0 = CountCollectable(spawn_sprites(layout).tiles)
    /\ now = 0
    /\ shooter = IdleShooter
    /\ db = setup(layout)
    /\ dust = NoDust
    /\ anim = NoAnim

PanKeys == [right : {FALSE}, left : BOOLEAN, up : {FALSE}, escape : {FALSE},
            save : {FALSE}]

NextPan == \E keys \in PanKeys : Run(keys) /\ UNCHANGED <<dust, anim>>

SpecPan == InitPan /\ [][NextPan]_vars

\* The player's rectangle is in the left quarter of the screen and it moves
\* left, or in the right quarter and it moves right.
InPanZone(c, dx) ==
    \/ 4 * CenterX(c) < screen_width /\ dx < 0
    \/ 4 * CenterX(c) > 3 * screen_width /\ dx > 0

\* In a frame whose movement is applied in the pan zone the player keeps its x.
C28_NoOwnMove == InPanZone(player, player'.dx) => player'.x = player.x

\* The player is at most one step (8) further into the quarter than where it
\* was spawned (inside the quarter).
C28_WithinOneStep ==
    player.x >= spawn_sprites(layout).player.x - PLAYER_MOVEMENT

\* C28: while the camera pans the player appears stationary: in any frame in
\* which its centre is in the left quarter with direction.x < 0 (or in the
\* right quarter with direction.x > 0) when its horizontal movement is
\* applied, its own movement changes its x by 0; hence its centre cannot be
\* driven by its own movement further than one step (8) beyond the quarter
\* boundary.
C28_StationaryWhilePanning == [][C28_NoOwnMove]_vars /\ []C28_WithinOneStep

-----------------------------------------------------------------------------
\* Player.update with the frame index of the animation followed: frame_index
\* is kept in hundredths, int(frame_index) is frame_index \div 100.

\* Speeds.PLAYER_ANIMATION (0.15), in hundredths.
PLAYER_ANIMATION == 15

\* The longest animation folder considered.
MaxAnimFrames == 2

PlayerStates == {"IDLE", "RUN", "JUMP", "FALL"}

\* load_walking_animations: one list of images per PlayerState; only the
\* lengths matter here, every folder holding at least one image.
PlayerAnimations == [PlayerStates -> 1..MaxAnimFrames]

\* No image has been looked up.
NoLookup == [status |-> "NONE", index |-> 0]

\* The orientation setter: animations[self.status][int(self.frame_index)]
\* with the status and the index as they are stored when it is called.
orientation_lookup(a, status) ==
    [status |-> status, index |-> a.frame_index \div 100]

\* Player.animate that wraps the index on the animation of the status stored
\* before update_status ran.
PlayerAnimate_wraps_on_stored(a, stored, status, turned) ==
    LET advanced == a.frame_index + PLAYER_ANIMATION
        f == IF advanced >= 100 * a.lens[stored] THEN 0 ELSE advanced
    IN  [a EXCEPT !.frame_index = f,
                  !.setter = IF turned THEN orientation_lookup(a, stored)
                             ELSE NoLookup,
                  !.shown = [status |-> status, index |-> f \div 100]]

\* The lookups of one Player.update: the orientation setter if a direction
\* key is down (with the status `stored` by the previous frame), then
\* animate on the animation of the new `status`: advance, wrap, look up.
PlayerAnimate(a, stored, status, turned) ==
    LET advanced == a.frame_index + PLAYER_ANIMATION
        f == IF advanced >= 100 * a.lens[status] THEN 0 ELSE advanced
    IN  [a EXCEPT !.frame_index = f,
                  !.setter = IF turned THEN orientation_lookup(a, stored)
                             ELSE NoLookup,
                  !.shown = [status |-> status, index |-> f \div 100]]

\* What the two collision passes of a frame can leave in direction.y (tenths)
\* for the next Player.update: a jump under way, rest, one and two frames of
\* gravity.
AnimateDy == {PLAYER_JUMP + GRAVITY, 0, GRAVITY, 2 * GRAVITY}

AnimateKeys == [right : BOOLEAN, left : BOOLEAN, up : BOOLEAN,
                escape : {FALSE}, save : {FALSE}]

InitAnimate ==
    /\ pc = "animating"
    /\ player = NewPlayer(0, 0)
    /\ anim \in {[lens |-> l, frame_index |-> 0, setter |-> NoLookup,
                  shown |-> NoLookup] : l \in PlayerAnimations}
    /\ obs = [stored |-> "IDLE"]
    /\ tiles = <<>>
    /\ enemies = <<>>
    /\ world_shift = 0
    /\ current_x = 0
    /\ coins0 = 0
    /\ layout = LevelMap
    /\ built = [ok |-> TRUE]
    /\ now = 0
    /\ shooter = IdleShooter
    /\ db = setup(layout)
    /\ dust = NoDust

\* self.player.update() of one frame, after the passes of the frame before
\* left direction.y = dy and the collision set cs.
AnimateFrame(keys, dy, cs) ==
    /\ pc = "animating"
    /\ \E u \in {PlayerUpdate([player EXCEPT !.dy = dy, !.lift = dy < 0,
                                             !.collisions = cs], keys)} :
          /\ player' = u.p
          /\ anim' = PlayerAnimate(anim, player.status, u.p.status,
                                   keys.right \/ keys.left)
    /\ obs' = [stored |-> player.status]
    /\ UNCHANGED <<pc, tiles, enemies, world_shift, current_x, coins0, layout,
                   built, now, shooter, db, dust>>

NextAnimate ==
    \E keys \in AnimateKeys, dy \in AnimateDy, cs \in {{}, {"BOTTOM"}} :
        AnimateFrame(keys, dy, cs)

SpecAnimate == InitAnimate /\ [][NextAnimate]_vars

\* An image was looked up at an index its animation has.
ValidLookup(k) ==
    k.status # "NONE" => k.index >= 0 /\ k.index < anim.lens[k.status]

\* C29: with at least one image in every player animation, every lookup uses
\* a valid index: in animate, after the advance-and-wrap,
\* 0 <= int(frame_index) < length of the animation of the new status; in the
\* orientation setter, int(frame_index) < length of the animation of the
\* status still stored from the previous frame.
C29_ValidAnimationIndex ==
    pc = "animating" =>
        /\ ValidLookup(anim.shown)
        /\ anim.shown.status \in {"NONE", player.status}
        /\ ValidLookup(anim.setter)
        /\ anim.setter.status \in {"NONE", obs.stored}

\* The setter looked up a later image of a short animation while the frame
\* moved on to another status, whose animation has a different length.
C29_Witness ==
    /\ pc = "animating"
    /\ anim.setter.status # "NONE"
    /\ anim.setter.index > 0
    /\ anim.setter.index = anim.lens[anim.setter.status] - 1
    /\ player.status # anim.setter.status
    /\ anim.lens[player.status] # anim.lens[anim.setter.status]

-----------------------------------------------------------------------------
\* The player stands at height `top` over a solid tile of ts: the tile's top
\* is at `top` and their x-spans overlap.
Under(p, ts, top) ==
    \E i \in SolidTiles(ts) :
        Top(ts[i]) = top /\ ts[i].x < Right(p) /\ p.x < Right(ts[i])

\* The player rests: it was snapped onto a tile (direction.y 0) or has since
\* taken one step of gravity that did not move it, BOTTOM is set and a solid
\* tile is right under its bottom edge.
Rests(p, ts) ==
    /\ "BOTTOM" \in p.collisions
    /\ ~p.lift
    /\ p.dy \in {0, GRAVITY}
    /\ Under(p, ts, Bottom(p))

\* A frame that starts at rest, issues no jump, does not end the game and
\* leaves a solid tile under the player computes IDLE or RUN, ends with
\* BOTTOM set and the bottom edge not below the tile's top, and at rest again.
C30_Frame ==
    (/\ pc = "running"
     /\ Rests(player, tiles)
     /\ obs'.jumps = 0
     /\ ~obs'.over
     /\ Under(player', tiles', Bottom(player)))
    => /\ player'.status \in {"IDLE", "RUN"}
       /\ "BOTTOM" \in player'.collisions
       /\ Bottom(player') <= Bottom(player)
       /\ Rests(player', tiles')

\* C30: resting is stable under unconditional gravity: once the player has
\* been snapped onto the top of a solid tile, as long as no jump is issued
\* and the tile stays under it, in every later frame the status computed is
\* IDLE or RUN (never FALL or JUMP), BOTTOM is in the collision set at the
\* end of the frame and the bottom edge does not end the frame below the
\* tile's top.
C30_RestingIsStable == [][C30_Frame]_vars

\* The player rests a frame after the snap, gravity accumulated and running.
C30_Witness ==
    /\ pc = "running"
    /\ Rests(player, tiles)
    /\ player.dy = GRAVITY
    /\ player.status = "RUN"
    /\ obs.jumps = 0
    /\ obs.dy1 = 0
=============================================================================
